---------------------------- MODULE Spec2Model ----------------------------
(***************************************************************************)
(* Model of the columnar marshalling core of natch (native/chex_fine):     *)
(* typed columns and their bulk appends (column.cpp), blocks (block.cpp)   *)
(* and the decoders of result columns (select.cpp).                        *)
(*                                                                         *)
(* 64-bit host integers are kept at full width as four 16-bit limbs, least *)
(* significant first, so that every narrowing conversion of the code is    *)
(* computed on the real bit pattern.  A 128-bit value has eight limbs.      *)
(***************************************************************************)
EXTENDS Integers, Sequences, FiniteSets, TLC

VARIABLES
    cols,      \* the column resources: handle -> the Column object it points to
    blk,       \* the BlockResource: its columns (name, handle) and cached row count
    sel,       \* client_select: its position and the rows collected so far
    call,      \* the last NIF call: name, arguments, outcome, columns before it
    pending    \* values appended in bulk to one column and not yet one by one to the other

vars == <<cols, blk, sel, call, pending>>

---------------------------------------------------------------------------
(* Bounds of the model. *)

MaxRows == 2
MaxBulk == 2
MaxOffsets == 3
MaxBlocks == 2

---------------------------------------------------------------------------
(* Fixed-width integers. *)

Base == 2^16

\* uint64_t holding the small number n (0 <= n < 2^31)
U64(n) == <<n % Base, n \div Base, 0, 0>>

\* int64_t holding the small number n (-2^31 <= n < 2^31), two's complement
I64(n) ==
    IF n >= 0 THEN U64(n)
    ELSE <<n % Base, (n \div Base) % Base, Base - 1, Base - 1>>

Limbs(w) == IF w <= 16 THEN 1 ELSE w \div 16

\* static_cast<uintN_t>(x) and static_cast<intN_t>(x) of a wider integer:
\* the low w bits of the pattern
static_cast_narrow(x, w) ==
    [i \in 1..Limbs(w) |-> IF w = 8 THEN x[i] % 256 ELSE x[i]]

\* integral conversion of an unsigned w-bit value to n limbs
ZeroExtend(x, n) ==
    [i \in 1..n |-> IF i <= Len(x) THEN x[i] ELSE 0]

IsNegative(x, w) ==
    IF w = 8 THEN x[1] >= 128 ELSE x[Len(x)] >= Base \div 2

\* integral conversion of a signed w-bit value to n limbs
SignExtend(x, w, n) ==
    [i \in 1..n |->
        IF i <= Len(x)
        THEN (IF w = 8 /\ IsNegative(x, w) THEN x[i] + (Base - 256) ELSE x[i])
        ELSE (IF IsNegative(x, w) THEN Base - 1 ELSE 0)]

---------------------------------------------------------------------------
(* Host terms built by the decoders. *)

enif_make_uint64(x) == [t |-> "uint64", v |-> x]
enif_make_int64(x) == [t |-> "int64", v |-> x]
enif_make_double(x) == [t |-> "double", v |-> x]
enif_make_binary(s) == [t |-> "binary", v |-> s]
enif_make_atom(a) == [t |-> "atom", v |-> a]
enif_make_list_from_array(s) == [t |-> "list", v |-> s]

---------------------------------------------------------------------------
(* Columns. *)

VectorKinds ==
    {"UInt8", "UInt16", "UInt32", "UInt64", "Int8", "Int16", "Int32", "Int64",
     "Float64", "String", "DateTime", "DateTime64", "Date", "Decimal"}

\* The type descriptors of the model and the type each one parses to.
TypeOf(type_name) ==
    CASE type_name = "Array(String)" ->
            [kind |-> "Array", nested |-> [kind |-> "String"]]
      [] type_name = "Array(UInt64)" ->
            [kind |-> "Array", nested |-> [kind |-> "UInt64"]]
      [] type_name = "Array(Array(String))" ->
            [kind |-> "Array",
             nested |-> [kind |-> "Array", nested |-> [kind |-> "String"]]]
      [] type_name = "Tuple(UInt64, String)" ->
            [kind |-> "Tuple", elements |-> <<[kind |-> "UInt64"], [kind |-> "String"]>>]
      [] type_name = "LowCardinality(String)" ->
            [kind |-> "LowCardinality", nested |-> [kind |-> "String"]]
      [] type_name = "Nullable(UInt64)" ->
            [kind |-> "Nullable", nested |-> [kind |-> "UInt64"]]
      [] type_name = "Nullable(Int64)" ->
            [kind |-> "Nullable", nested |-> [kind |-> "Int64"]]
      [] type_name = "Nullable(String)" ->
            [kind |-> "Nullable", nested |-> [kind |-> "String"]]
      [] type_name = "Nullable(Float64)" ->
            [kind |-> "Nullable", nested |-> [kind |-> "Float64"]]
      [] type_name = "Decimal(38,2)" -> [kind |-> "Decimal"]
      [] type_name = "DateTime64(3)" -> [kind |-> "DateTime64"]
      [] OTHER -> [kind |-> type_name]

\* the descriptors of the model that name a primitive type
PrimitiveTypeNames ==
    {"UInt8", "UInt16", "UInt32", "UInt64", "Int8", "Int16", "Int32", "Int64",
     "Float32", "Float64", "String", "Date", "DateTime", "UUID"}

\* the descriptors of the model that CreateColumnByType can parse
SupportedTypes ==
    PrimitiveTypeNames \cup
    {"Decimal(38,2)", "DateTime64(3)", "Array(String)", "Array(UInt64)",
     "Array(Array(String))", "Tuple(UInt64, String)", "LowCardinality(String)",
     "Nullable(UInt64)", "Nullable(Int64)", "Nullable(String)", "Nullable(Float64)"}

\* a null ColumnRef
nullptr == [kind |-> "null"]

\* the item a LowCardinality dictionary holds at index 0: one default value
\* of the nested kind
DefaultItem(type) ==
    [kind |-> type.kind,
     data |-> <<IF type.kind = "String" THEN "" ELSE <<0, 0, 0, 0>>>>]

RECURSIVE ColumnAppend(_, _)
RECURSIVE EmptyColumn(_)

\* a zero-row column of a type
EmptyColumn(type) ==
    CASE type.kind = "Array" ->
            [kind |-> "Array", offsets |-> <<>>, nested |-> EmptyColumn(type.nested)]
      [] type.kind = "Nullable" ->
            [kind |-> "Nullable", nulls |-> <<>>, nested |-> EmptyColumn(type.nested)]
      [] type.kind = "LowCardinality" ->
            [kind |-> "LowCardinality", index |-> <<>>,
             dictionary |-> ColumnAppend(EmptyColumn(type.nested),
                                         DefaultItem(type.nested))]
      [] type.kind = "Tuple" ->
            [kind |-> "Tuple",
             columns |-> [ci \in DOMAIN type.elements |-> EmptyColumn(type.elements[ci])]]
      [] OTHER -> [kind |-> type.kind, data |-> <<>>]

\* CreateColumnByType(type_name), as column_create uses it: a zero-row column,
\* or a null pointer for a descriptor that does not parse
CreateColumnByType(type_name) ==
    IF type_name \in SupportedTypes THEN EmptyColumn(TypeOf(type_name)) ELSE nullptr

\* Column::Size()
RECURSIVE Size(_)
Size(col) ==
    CASE col.kind = "Array" -> Len(col.offsets)
      [] col.kind = "Nullable" -> Len(col.nulls)
      [] col.kind = "Tuple" ->
            IF col.columns = <<>> THEN 0 ELSE Size(col.columns[1])
      [] col.kind = "LowCardinality" -> Len(col.index)
      [] OTHER -> Len(col.data)

\* SliceVector: rows [begin, begin + len) of a vector, cut at its end
\* (begin counts from 0 as in the code)
SliceVector(vec, begin, len) ==
    IF begin < Len(vec)
    THEN SubSeq(vec, begin + 1, begin + (IF len < Len(vec) - begin THEN len ELSE Len(vec) - begin))
    ELSE <<>>

\* ColumnArray::GetOffset(n) and GetSize(n), n from 0
GetOffset(col, n) == IF n = 0 THEN 0 ELSE col.offsets[n]

GetSize(col, n) ==
    IF n = 0 THEN col.offsets[1] ELSE col.offsets[n + 1] - col.offsets[n]

RECURSIVE Slice(_, _, _)
RECURSIVE SliceRows(_, _, _, _)

\* ColumnArray::AppendAsColumn(array): one more row holding the rows of `array`
AppendAsColumn(col, array) ==
    [col EXCEPT
        !.offsets = Append(@, (IF Len(@) = 0 THEN 0 ELSE @[Len(@)]) + Size(array)),
        !.nested = ColumnAppend(@, array)]

\* ColumnArray::GetAsColumn(n), n from 0
GetAsColumn(col, n) == Slice(col.nested, GetOffset(col, n), GetSize(col, n))

\* Column::Append(column): all rows of `other` after those of `col`
ColumnAppend(col, other) ==
    CASE col.kind = "Array" ->
            SliceRows(col, other, 0, Size(other))
      [] col.kind = "Nullable" ->
            [col EXCEPT !.nulls = @ \o other.nulls,
                        !.nested = ColumnAppend(@, other.nested)]
      [] col.kind = "Tuple" ->
            [col EXCEPT !.columns = [ci \in DOMAIN @ |->
                                        ColumnAppend(@[ci], other.columns[ci])]]
      [] OTHER -> [col EXCEPT !.data = @ \o other.data]

\* rows [n, last) of the array column `from`, appended to `acc` one by one
SliceRows(acc, from, n, last) ==
    IF n >= last \/ n >= Size(from) THEN acc
    ELSE SliceRows(AppendAsColumn(acc, GetAsColumn(from, n)), from, n + 1, last)

\* Column::Slice(begin, len): a new column of the same type
Slice(col, begin, len) ==
    CASE col.kind = "Array" ->
            SliceRows([col EXCEPT !.offsets = <<>>,
                                  !.nested = Slice(@, 0, 0)],
                      col, begin, begin + len)
      [] col.kind = "Nullable" ->
            [col EXCEPT !.nulls = SliceVector(@, begin, len),
                        !.nested = Slice(@, begin, len)]
      [] col.kind = "Tuple" ->
            [col EXCEPT !.columns = [ci \in DOMAIN @ |-> Slice(@[ci], begin, len)]]
      [] OTHER -> [col EXCEPT !.data = SliceVector(@, begin, len)]

\* ColumnNullable::IsNull(n), n from 0
IsNull(col, n) == col.nulls[n + 1] # 0

---------------------------------------------------------------------------
(* Decoding: select.cpp. *)

\* the sixteen digits std::hex writes
HexChars ==
    <<"0", "1", "2", "3", "4", "5", "6", "7", "8", "9", "a", "b", "c", "d", "e", "f">>

\* the four hex digits of one 16-bit limb
LimbHex(l) ==
    HexChars[(l \div 4096) + 1] \o HexChars[((l \div 256) % 16) + 1]
        \o HexChars[((l \div 16) % 16) + 1] \o HexChars[(l % 16) + 1]

\* the hex digits of the limbs after the leading one
RECURSIVE LimbsHex(_)
LimbsHex(limbs) ==
    IF limbs = <<>> THEN "" ELSE LimbHex(Head(limbs)) \o LimbsHex(Tail(limbs))

\* oss << std::hex << x, for the number whose limbs (most significant first)
\* are given: its hex digits without leading zeros, "0" for zero
RECURSIVE HexOf(_)
HexOf(limbs) ==
    IF limbs = <<>> THEN "0"
    ELSE IF Head(limbs) = 0 THEN HexOf(Tail(limbs))
    ELSE LET l == Head(limbs)
             first == IF l >= 4096 THEN LimbHex(l)
                      ELSE IF l >= 256
                      THEN HexChars[(l \div 256) + 1] \o HexChars[((l \div 16) % 16) + 1]
                               \o HexChars[(l % 16) + 1]
                      ELSE IF l >= 16
                      THEN HexChars[(l \div 16) + 1] \o HexChars[(l % 16) + 1]
                      ELSE HexChars[l + 1]
         IN  first \o LimbsHex(Tail(limbs))

\* a stream that ignores the field width
setw_ignored(width, text) == text

\* std::setw(width) with std::setfill('0'): text shorter than the width is
\* filled with zeros on the left, longer text is written whole
RECURSIVE setw(_, _)
setw(width, text) ==
    IF Len(text) >= width THEN text ELSE setw(width, "0" \o text)

\* the string both decoders build of a UUID: high and low are uint64_t
uuid_str(high, low) ==
    setw(8, HexOf(<<high[4], high[3]>>)) \o "-"
        \o setw(4, HexOf(<<high[2]>>)) \o "-"
        \o setw(4, HexOf(<<high[1]>>)) \o "-"
        \o setw(4, HexOf(<<low[4]>>)) \o "-"
        \o setw(12, HexOf(<<low[3], low[2], low[1]>>))

\* the term made of row i (from 0) of a column of a primitive kind
ElementTerm(col, i) ==
    LET x == col.data[i + 1] IN
    CASE col.kind \in {"UInt64", "UInt32", "UInt16", "UInt8", "DateTime", "Date"} ->
            enif_make_uint64(ZeroExtend(x, 4))
      [] col.kind = "Int64" -> enif_make_int64(SignExtend(x, 64, 4))
      [] col.kind = "DateTime64" -> enif_make_int64(SignExtend(x, 64, 4))
      [] col.kind = "Int32" -> enif_make_int64(SignExtend(x, 32, 4))
      [] col.kind = "Int16" -> enif_make_int64(SignExtend(x, 16, 4))
      [] col.kind = "Int8" -> enif_make_int64(SignExtend(x, 8, 4))
      [] col.kind = "Float64" -> enif_make_double(x)
      [] col.kind = "String" -> enif_make_binary(x)
      [] col.kind = "Decimal" -> enif_make_int64(SubSeq(x, 1, 4))
      [] col.kind = "UUID" -> enif_make_binary(uuid_str(x[1], x[2]))

PrimitiveKinds ==
    {"UInt64", "UInt32", "UInt16", "UInt8", "Int64", "Int32", "Int16", "Int8",
     "Float64", "String", "DateTime", "DateTime64", "Date", "UUID", "Decimal"}

NullableDecoded == {"UInt64", "Int64", "String", "Float64"}

RECURSIVE Concat(_)
Concat(ss) == IF ss = <<>> THEN <<>> ELSE Head(ss) \o Concat(Tail(ss))

\* a Nullable decoder with a value for every nested primitive kind
NullableValues_any(col, count) ==
    [k \in 1..count |->
        IF IsNull(col, k - 1) THEN enif_make_atom("nil")
        ELSE ElementTerm(col.nested, k - 1)]

\* the values a Nullable column pushes for rows [0, count): nil for a null
\* row, the nested value for the four decoded nested kinds, nothing otherwise
NullableValues(col, count) ==
    Concat([k \in 1..count |->
        IF IsNull(col, k - 1) THEN <<enif_make_atom("nil")>>
        ELSE IF col.nested.kind \in NullableDecoded
        THEN <<ElementTerm(col.nested, k - 1)>>
        ELSE <<>>])

RECURSIVE column_to_elixir_list(_)

\* column_to_elixir_list(env, col): the list of all rows of a column
column_to_elixir_list(col) ==
    LET count == Size(col) IN
    enif_make_list_from_array(
        CASE col.kind \in PrimitiveKinds ->
                [k \in 1..count |-> ElementTerm(col, k - 1)]
          [] col.kind = "Array" ->
                [k \in 1..count |-> column_to_elixir_list(GetAsColumn(col, k - 1))]
          [] col.kind = "Nullable" -> NullableValues(col, count)
          [] OTHER -> <<>>)

---------------------------------------------------------------------------
(* The append NIFs of column.cpp. *)

NoCall == [op |-> "none", status |-> "ok"]

\* encode_clickhouse_error(e) of a std::runtime_error thrown by a NIF
RuntimeError(message) == [type |-> "unknown", message |-> message]

\* the VM has not been brought down by undefined behaviour in a NIF
Alive == call.status # "crashed" /\ sel.pc # "crashed"

\* a column_create that wraps whatever CreateColumnByType returns
column_create_unchecked(type_name) ==
    /\ Alive
    /\ cols' = Append(cols, CreateColumnByType(type_name))
    /\ call' = [op |-> "column_create", type_name |-> type_name,
                col |-> Len(cols) + 1, status |-> "ok"]
    /\ UNCHANGED <<blk, sel>>

\* column_create(type_name): a new column resource, or the error thrown when
\* CreateColumnByType returned a null pointer
column_create(type_name) ==
    /\ Alive
    /\ LET col == CreateColumnByType(type_name) IN
        IF col.kind = "null"
        THEN /\ call' = [op |-> "column_create", type_name |-> type_name,
                         col |-> 0, status |-> "error",
                         error |-> RuntimeError("Failed to create column of type: "
                                                \o type_name)]
             /\ UNCHANGED cols
        ELSE /\ cols' = Append(cols, col)
             /\ call' = [op |-> "column_create", type_name |-> type_name,
                         col |-> Len(cols) + 1, status |-> "ok"]
    /\ UNCHANGED <<blk, sel>>

\* a size that counts the dictionary of a LowCardinality column
column_size_dictionary(c) ==
    IF cols[c].kind = "LowCardinality"
    THEN Len(cols[c].dictionary.data) ELSE Size(cols[c])

\* column_size(col_res)
column_size(c) == Size(cols[c])

\* typed->Append(value) for every value, on the column behind handle c;
\* `stored` holds what Append is handed for each inbound value
AppendValues(op, c, kind, values, stored) ==
    /\ Alive
    /\ c \in DOMAIN cols
    /\ cols[c].kind = kind
    /\ Size(cols[c]) + Len(values) <= MaxRows
    /\ cols' = [cols EXCEPT
                  ![c].data = @ \o stored]
    /\ call' = [op |-> op, col |-> c, values |-> values, status |-> "ok",
                pre |-> cols[c]]
    /\ UNCHANGED <<blk, sel>>

\* ColumnDateTime::Append(time_t) keeps the 32-bit epoch count
DateTimeStored(timestamp) == static_cast_narrow(timestamp, 32)

\* a conversion through a 32-bit integer instead
Int128_through_int32(value) == SignExtend(static_cast_narrow(value, 32), 32, 8)

\* Int128(value) of an int64_t
Int128(value) == SignExtend(value, 64, 8)

column_uint64_append(c, value) ==
    AppendValues("column_uint64_append", c, "UInt64", <<value>>,
                 <<value>>)

column_int64_append(c, value) ==
    AppendValues("column_int64_append", c, "Int64", <<value>>,
                 <<value>>)

column_string_append(c, value) ==
    AppendValues("column_string_append", c, "String", <<value>>,
                 <<value>>)

column_float64_append(c, value) ==
    AppendValues("column_float64_append", c, "Float64", <<value>>,
                 <<value>>)

column_datetime_append(c, timestamp) ==
    AppendValues("column_datetime_append", c, "DateTime", <<timestamp>>,
                 <<DateTimeStored(timestamp)>>)

\* a loop that starts at the second value
column_uint64_append_bulk_from_second(c, values) ==
    AppendValues("column_uint64_append_bulk", c, "UInt64", values,
                 IF values = <<>> THEN <<>> ELSE Tail(values))

column_uint64_append_bulk(c, values) ==
    AppendValues("column_uint64_append_bulk", c, "UInt64", values,
                 values)

column_int64_append_bulk(c, values) ==
    AppendValues("column_int64_append_bulk", c, "Int64", values,
                 values)

column_string_append_bulk(c, values) ==
    AppendValues("column_string_append_bulk", c, "String", values,
                 values)

column_float64_append_bulk(c, values) ==
    AppendValues("column_float64_append_bulk", c, "Float64", values,
                 values)

column_datetime_append_bulk(c, timestamps) ==
    AppendValues("column_datetime_append_bulk", c, "DateTime", timestamps,
                 [k \in DOMAIN timestamps |-> DateTimeStored(timestamps[k])])

column_decimal_append_bulk(c, scaled_values) ==
    AppendValues("column_decimal_append_bulk", c, "Decimal", scaled_values,
                 [k \in DOMAIN scaled_values |-> Int128(scaled_values[k])])

\* a saturating conversion to 8 bits instead of the truncating one
Cast8_saturating(value) ==
    IF value[1] > 255 \/ value[2] # 0 \/ value[3] # 0 \/ value[4] # 0
    THEN <<255>> ELSE <<value[1]>>

Cast8(value) == static_cast_narrow(value, 8)

Cast16(value) == static_cast_narrow(value, 16)

Cast32(value) == static_cast_narrow(value, 32)

column_date_append_bulk(c, days) ==
    AppendValues("column_date_append_bulk", c, "Date", days,
                 [k \in DOMAIN days |-> Cast16(days[k])])

column_uint8_append_bulk(c, values) ==
    AppendValues("column_uint8_append_bulk", c, "UInt8", values,
                 [k \in DOMAIN values |-> Cast8(values[k])])

column_uint32_append_bulk(c, values) ==
    AppendValues("column_uint32_append_bulk", c, "UInt32", values,
                 [k \in DOMAIN values |-> Cast32(values[k])])

column_uint16_append_bulk(c, values) ==
    AppendValues("column_uint16_append_bulk", c, "UInt16", values,
                 [k \in DOMAIN values |-> Cast16(values[k])])

column_int32_append_bulk(c, values) ==
    AppendValues("column_int32_append_bulk", c, "Int32", values,
                 [k \in DOMAIN values |-> Cast32(values[k])])

column_int16_append_bulk(c, values) ==
    AppendValues("column_int16_append_bulk", c, "Int16", values,
                 [k \in DOMAIN values |-> Cast16(values[k])])

column_int8_append_bulk(c, values) ==
    AppendValues("column_int8_append_bulk", c, "Int8", values,
                 [k \in DOMAIN values |-> Cast8(values[k])])

\* the null flag a nullable bulk append reads at index i (from 0): nulls[i],
\* or, past the end of nulls, whatever the read finds (junk)
NullFlagAt(nulls, i, junk) == IF i < Len(nulls) THEN nulls[i + 1] ELSE junk

\* a null map that is never set
NullByte_cleared(flag) == 0


\* the null map byte stored for an inbound flag
NullByte(flag) == static_cast_narrow(flag, 8)[1]

\* the loop of the nullable bulk appends on the column behind handle c:
\* nested->Append(values[i]); null_map->Append(static_cast<uint8_t>(nulls[i])).
\* `ub` is what the read of nulls past its end does in this run: "crash",
\* or the 64-bit value it finds.
NullableAppend(op, c, kind, values, nulls, ub) ==
    /\ Alive
    /\ c \in DOMAIN cols
    /\ cols[c].kind = "Nullable"
    /\ cols[c].nested.kind = kind
    /\ Size(cols[c]) + Len(values) <= MaxRows
    /\ IF Len(nulls) < Len(values) /\ ub = "crash"
       THEN /\ call' = [op |-> op, col |-> c, values |-> values, nulls |-> nulls,
                        status |-> "crashed", pre |-> cols[c]]
            /\ UNCHANGED cols
       ELSE /\ cols' = [cols EXCEPT
                          ![c].nested.data = @ \o values,
                          ![c].nulls = @ \o [k \in 1..Len(values) |->
                                                NullByte(NullFlagAt(nulls, k - 1, ub))]]
            /\ call' = [op |-> op, col |-> c, values |-> values, nulls |-> nulls,
                        status |-> "ok", pre |-> cols[c]]
    /\ UNCHANGED <<blk, sel>>

column_nullable_uint64_append_bulk(c, values, nulls, ub) ==
    NullableAppend("column_nullable_uint64_append_bulk", c, "UInt64", values, nulls, ub)

column_nullable_int64_append_bulk(c, values, nulls, ub) ==
    NullableAppend("column_nullable_int64_append_bulk", c, "Int64", values, nulls, ub)

column_nullable_string_append_bulk(c, values, nulls, ub) ==
    NullableAppend("column_nullable_string_append_bulk", c, "String", values, nulls, ub)

column_nullable_float64_append_bulk(c, values, nulls, ub) ==
    NullableAppend("column_nullable_float64_append_bulk", c, "Float64", values, nulls, ub)

---------------------------------------------------------------------------
(* Blocks: block.cpp, and the row projection of select.cpp. *)

\* AppendColumn without the comparison of the column's size with rows_
AppendColumn_unchecked(block, name, col, size) ==
    [ok |-> TRUE,
     block |-> [columns |-> Append(block.columns, [name |-> name, col |-> col]),
                rows |-> IF block.columns = <<>> THEN size ELSE block.rows]]

\* Block::AppendColumn(name, col) as block_append_column and the client use
\* it: the first column sets the row count, a later one must have it
AppendColumn(block, name, col, size) ==
    IF block.columns = <<>>
    THEN [ok |-> TRUE,
          block |-> [columns |-> <<[name |-> name, col |-> col]>>, rows |-> size]]
    ELSE IF size # block.rows
    THEN [ok |-> FALSE, block |-> block]
    ELSE [ok |-> TRUE,
          block |-> [block EXCEPT !.columns = Append(@, [name |-> name, col |-> col])]]

\* encode_clickhouse_error(e) of the library's ValidationError
ValidationError(message) == [type |-> "validation", message |-> message]

\* block_append_column(block_res, name, col_res): the block shares the column
block_append_column(name, c) ==
    /\ Alive
    /\ c \in DOMAIN cols
    /\ LET r == AppendColumn(blk, name, c, Size(cols[c])) IN
        /\ blk' = r.block
        /\ call' = IF r.ok
                   THEN [op |-> "block_append_column", col |-> c, name |-> name,
                         status |-> "ok", pre |-> blk]
                   ELSE [op |-> "block_append_column", col |-> c, name |-> name,
                         status |-> "error", pre |-> blk,
                         error |-> ValidationError("all columns in block must have same count of rows")]
    /\ UNCHANGED <<cols, sel>>

\* block_row_count and block_column_count
block_row_count(block) == block.rows

block_column_count(block) == Len(block.columns)

\* the column_values vector block_to_maps_impl builds for one column: one
\* term per row for the kinds it handles; At(i) past the column's end throws
block_column_values(col, row_count) ==
    CASE col.kind \in PrimitiveKinds ->
            IF row_count > Size(col)
            THEN [thrown |-> TRUE, values |-> <<>>]
            ELSE [thrown |-> FALSE,
                  values |-> [k \in 1..row_count |-> ElementTerm(col, k - 1)]]
      [] col.kind = "Array" ->
            IF row_count > Size(col)
            THEN [thrown |-> TRUE, values |-> <<>>]
            ELSE [thrown |-> FALSE,
                  values |-> [k \in 1..row_count |->
                                column_to_elixir_list(GetAsColumn(col, k - 1))]]
      [] col.kind = "Nullable" ->
            IF row_count > Size(col)
            THEN [thrown |-> TRUE, values |-> <<>>]
            ELSE [thrown |-> FALSE, values |-> NullableValues(col, row_count)]
      [] OTHER -> [thrown |-> FALSE, values |-> <<>>]

Garbage == [t |-> "garbage", v |-> "?"]

\* col_data[c][r] (r from 0): a read past the vector's end is undefined
ColDataAt(values, r) == IF r < Len(values) THEN values[r + 1] ELSE Garbage

\* block_to_maps_impl(env, block).  `ub` is what undefined behaviour does in
\* this run: "crash", or "garbage" (some term is read).  Undefined are a read
\* of col_data[c][r] past the vector's end, and the push of `map` when
\* enif_make_map_from_arrays has refused repeated keys and left it unset.
block_to_maps_impl(block, ub) ==
    LET col_count == block_column_count(block)
        row_count == block_row_count(block)
        col_data == [c \in 1..col_count |->
                        block_column_values(block.columns[c].col, row_count)]
        names == {block.columns[c].name : c \in 1..col_count}
        Last(n) == CHOOSE c \in 1..col_count :
                      /\ block.columns[c].name = n
                      /\ \A d \in 1..col_count : block.columns[d].name = n => d <= c
        row(r) == [n \in names |-> ColDataAt(col_data[Last(n)].values, r)]
        repeated == \E c, d \in 1..col_count :
                       c # d /\ block.columns[c].name = block.columns[d].name
        undefined == \/ \E c \in 1..col_count : Len(col_data[c].values) < row_count
                     \/ repeated
    IN  IF row_count = 0 THEN [status |-> "ok", maps |-> <<>>]
        ELSE IF \E c \in 1..col_count : col_data[c].thrown
        THEN [status |-> "exception", maps |-> <<>>]
        ELSE IF undefined /\ ub = "crash"
        THEN [status |-> "crashed", maps |-> <<>>]
        ELSE [status |-> "ok",
              maps |-> [r \in 1..row_count |->
                          IF repeated THEN Garbage ELSE row(r - 1)]]

UBOutcomes == {"crash", "garbage"}

\* the Block the client builds from the columns of one data packet
RECURSIVE ReadBlock(_, _)
ReadBlock(block, named) ==
    IF named = <<>> THEN [ok |-> TRUE, block |-> block]
    ELSE LET r == AppendColumn(block, Head(named).name, Head(named).col,
                               Size(Head(named).col))
         IN  IF r.ok THEN ReadBlock(r.block, Tail(named)) ELSE r

EmptyBlock == [columns |-> <<>>, rows |-> 0]

\* client_select(client, query), entry: all_maps is empty, Select starts
client_select ==
    /\ Alive
    /\ sel.pc \in {"idle", "returned"}
    /\ sel' = [pc |-> "selecting", all_maps |-> <<>>, blocks |-> <<>>,
               packet |-> <<>>, produced |-> <<>>,
               result |-> enif_make_list_from_array(<<>>)]
    /\ UNCHANGED <<cols, blk, call>>

\* a callback that keeps only the rows of the block it was called on
select_callback_last(named, ub) ==
    /\ sel.pc = "selecting"
    /\ Len(sel.blocks) < MaxBlocks
    /\ LET b == ReadBlock(EmptyBlock, named)
           m == block_to_maps_impl(b.block, ub)
       IN  IF ~b.ok
           THEN sel' = [sel EXCEPT !.pc = "raised", !.packet = named,
                                   !.produced = <<>>]
           ELSE IF m.status # "ok"
           THEN sel' = [sel EXCEPT !.pc = m.status, !.packet = named,
                                   !.produced = <<>>]
           ELSE sel' = [sel EXCEPT !.all_maps = m.maps,
                                   !.blocks = Append(@, b.block),
                                   !.packet = named, !.produced = m.maps]
    /\ UNCHANGED <<cols, blk, call>>

\* one data packet during Select: the client reads its block and calls the
\* lambda of client_select on it, which projects it and collects the rows
select_callback(named, ub) ==
    /\ sel.pc = "selecting"
    /\ Len(sel.blocks) < MaxBlocks
    /\ LET b == ReadBlock(EmptyBlock, named)
           m == block_to_maps_impl(b.block, ub)
       IN  IF ~b.ok
           THEN sel' = [sel EXCEPT !.pc = "raised", !.packet = named,
                                   !.produced = <<>>]
           ELSE IF m.status # "ok"
           THEN sel' = [sel EXCEPT !.pc = m.status, !.packet = named,
                                   !.produced = <<>>]
           ELSE sel' = [sel EXCEPT !.all_maps = @ \o m.maps,
                                   !.blocks = Append(@, b.block),
                                   !.packet = named, !.produced = m.maps]
    /\ UNCHANGED <<cols, blk, call>>

\* Select returns: client_select returns the list of all collected maps
client_select_return ==
    /\ sel.pc = "selecting"
    /\ sel' = [sel EXCEPT !.pc = "returned",
                           !.result = enif_make_list_from_array(sel.all_maps)]
    /\ UNCHANGED <<cols, blk, call>>

\* number of rows client_select collected from the blocks before the i-th
RECURSIVE RowsBefore(_, _)
RowsBefore(blocks, i) ==
    IF i <= 1 THEN 0 ELSE RowsBefore(blocks, i - 1) + blocks[i - 1].rows

---------------------------------------------------------------------------
(* Inputs of the model. *)

SeqsUpTo(S, n) == UNION {[1..k -> S] : k \in 0..n}

\* inbound 64-bit patterns: small values, values around each narrow width's
\* limits, and values with bits above bit 31
Inbound64 ==
    {U64(0), U64(1), U64(200), U64(255), U64(256), U64(300), U64(40000),
     U64(65536 + 5), <<7, 0, 1, 0>>, <<0, 32768, 0, 0>>,
     I64(-1), I64(-129), <<0, 0, 0, 32768>>}

InitCommon ==
    /\ blk = EmptyBlock
    /\ sel = [pc |-> "idle", all_maps |-> <<>>, blocks |-> <<>>,
              packet |-> <<>>, produced |-> <<>>,
              result |-> enif_make_list_from_array(<<>>)]
    /\ call = NoCall
    /\ pending = <<>>

---------------------------------------------------------------------------
(* Narrow integer columns: bulk append, then decode. *)

NarrowTypes == {"UInt8", "UInt16", "UInt32", "Int8", "Int16", "Int32", "Date"}

InitNarrow == cols = <<>> /\ InitCommon

NextNarrow ==
    \/ cols = <<>> /\ UNCHANGED pending /\ \E T \in NarrowTypes : column_create(T)
    \/ UNCHANGED pending /\ \E v \in SeqsUpTo(Inbound64, MaxBulk) : column_date_append_bulk(1, v)
    \/ UNCHANGED pending /\ \E v \in SeqsUpTo(Inbound64, MaxBulk) : column_uint8_append_bulk(1, v)
    \/ UNCHANGED pending /\ \E v \in SeqsUpTo(Inbound64, MaxBulk) : column_uint16_append_bulk(1, v)
    \/ UNCHANGED pending /\ \E v \in SeqsUpTo(Inbound64, MaxBulk) : column_uint32_append_bulk(1, v)
    \/ UNCHANGED pending /\ \E v \in SeqsUpTo(Inbound64, MaxBulk) : column_int8_append_bulk(1, v)
    \/ UNCHANGED pending /\ \E v \in SeqsUpTo(Inbound64, MaxBulk) : column_int16_append_bulk(1, v)
    \/ UNCHANGED pending /\ \E v \in SeqsUpTo(Inbound64, MaxBulk) : column_int32_append_bulk(1, v)

SpecNarrow == InitNarrow /\ [][NextNarrow]_vars

\* width in bits and signedness of the narrow kinds
WidthOf(kind) ==
    CASE kind \in {"UInt8", "Int8"} -> 8
      [] kind \in {"UInt16", "Int16", "Date"} -> 16
      [] kind \in {"UInt32", "Int32"} -> 32

IsSignedKind(kind) == kind \in {"Int8", "Int16", "Int32"}

\* x and y agree on their low w bits, i.e. x = y modulo 2^w
CongruentMod(x, y, w) ==
    IF w = 8 THEN x[1] % 256 = y[1] % 256
    ELSE \A i \in 1..(w \div 16) : x[i] = y[i]

\* the 64-bit pattern y is an unsigned number below 2^w
FitsUnsigned(y, w) ==
    /\ \A i \in 1..4 : i > Limbs(w) => y[i] = 0
    /\ w = 8 => y[1] < 256

\* the 64-bit two's complement pattern y is a number in [-2^(w-1), 2^(w-1))
FitsSigned(y, w) ==
    LET top == y[Limbs(w)]
        half == IF w = 8 THEN 128 ELSE Base \div 2
    IN  \/ /\ top < half
           /\ \A i \in 1..4 : i > Limbs(w) => y[i] = 0
        \/ /\ top >= Base - half
           /\ \A i \in 1..4 : i > Limbs(w) => y[i] = Base - 1

\* the number held by a 64-bit pattern, for the patterns below 2^31
IsSmall(x) == x[3] = 0 /\ x[4] = 0 /\ x[2] < Base \div 2

Num(x) == x[1] + Base * x[2]

\* the number held by a two's complement pattern in [-2^31, 2^31)
IsSmallSigned(x) == IsSmall(x) \/ (x[3] = Base - 1 /\ x[4] = Base - 1 /\ x[2] >= Base \div 2)

SNum(x) == IF IsSmall(x) THEN Num(x) ELSE x[1] + Base * (x[2] - Base)

NarrowBulkOps ==
    {"column_date_append_bulk", "column_uint8_append_bulk", "column_uint16_append_bulk",
     "column_uint32_append_bulk", "column_int8_append_bulk", "column_int16_append_bulk",
     "column_int32_append_bulk"}

\* the decoded term of the row that the last call appended for its k-th value
DecodedOfLast(k) == column_to_elixir_list(cols[call.col]).v[Size(call.pre) + k]

\* C8: after a bulk append into a narrow column, the row appended for every
\* inbound 64-bit value decodes to that value modulo 2^w (w the column's
\* width): an unsigned 64-bit number below 2^w for the unsigned kinds and
\* Date, a signed one in [-2^(w-1), 2^(w-1)) for the signed kinds, equal to
\* the inbound value on the low w bits; never the type's minimum or maximum
\* unless the low bits say so.
C8_TruncatingNarrow ==
    call.op \in NarrowBulkOps =>
        LET kind == cols[call.col].kind
            w == WidthOf(kind)
        IN  /\ Size(cols[call.col]) = Size(call.pre) + Len(call.values)
            /\ \A k \in 1..Len(call.values) :
                LET x == call.values[k]
                    d == DecodedOfLast(k)
                IN  /\ CongruentMod(x, d.v, w)
                    /\ IF IsSignedKind(kind)
                       THEN /\ d.t = "int64"
                            /\ FitsSigned(d.v, w)
                            /\ (IsSmallSigned(x) /\ w < 32) =>
                                  SNum(d.v) = ((SNum(x) + 2^(w - 1)) % 2^w) - 2^(w - 1)
                       ELSE /\ d.t = "uint64"
                            /\ FitsUnsigned(d.v, w)
                            /\ (IsSmall(x) /\ w < 32) => Num(d.v) = Num(x) % 2^w

\* C8 witness: 300 appended in bulk to a UInt8 column decodes to 44
C8_Witness300 ==
    /\ call.op = "column_uint8_append_bulk"
    /\ \E k \in 1..Len(call.values) :
        call.values[k] = U64(300) /\ DecodedOfLast(k) = enif_make_uint64(U64(44))

(* Round trip: a column built from host values, decoded; and Decimal columns *)
(* of a result, whose mantissas are 128 bits wide.                          *)

RoundTripTypes == {"Decimal(38,2)", "UInt64", "Int64", "String"}

StringValues == {"a", "b"}

\* inbound mantissas and integers: small ones and the two ends of int64
RoundTripInbound == {U64(5), I64(-1), <<0, 0, 0, Base \div 2>>,
                     <<Base - 1, Base - 1, Base - 1, Base \div 2 - 1>>}

\* 128-bit mantissas a result column can hold: inside the int64 range and
\* beyond each of its ends
ServerMantissas ==
    {Int128(U64(5)), Int128(I64(-1)),
     <<5, 0, 0, 0, 1, 0, 0, 0>>,
     <<Base - 1, Base - 1, Base - 1, Base \div 2 - 1, Base - 1, Base - 1, Base - 1, Base - 1>>}

\* the data packets of a Decimal result column "d": every mantissa alone,
\* and one packet of no rows
DecimalPackets ==
    {<<[name |-> "d", col |-> [kind |-> "Decimal", data |-> d]]>> :
        d \in {<<>>} \cup {<<m>> : m \in ServerMantissas}}

InitRoundTrip == cols = <<>> /\ InitCommon

\* columns are built first and a result is read afterwards
NextRoundTrip ==
    \/ cols = <<>> /\ sel.pc = "idle" /\ UNCHANGED pending /\ \E T \in RoundTripTypes : column_create(T)
    \/ sel.pc = "idle" /\ UNCHANGED pending /\ \E v \in SeqsUpTo(RoundTripInbound, MaxBulk) : column_decimal_append_bulk(1, v)
    \/ sel.pc = "idle" /\ UNCHANGED pending /\ \E v \in SeqsUpTo(RoundTripInbound, MaxBulk) : column_uint64_append_bulk(1, v)
    \/ sel.pc = "idle" /\ UNCHANGED pending /\ \E v \in SeqsUpTo(RoundTripInbound, MaxBulk) : column_int64_append_bulk(1, v)
    \/ sel.pc = "idle" /\ UNCHANGED pending /\ \E v \in SeqsUpTo(StringValues, MaxBulk) : column_string_append_bulk(1, v)
    \/ sel.pc = "idle" /\ UNCHANGED pending /\ client_select
    \/ UNCHANGED pending /\ \E p \in DecimalPackets, ub \in UBOutcomes : select_callback(p, ub)
    \/ UNCHANGED pending /\ client_select_return

SpecRoundTrip == InitRoundTrip /\ [][NextRoundTrip]_vars

\* the 128-bit two's complement pattern m is a number in [-2^63, 2^63)
InInt64Range(m) ==
    \/ m[4] < Base \div 2 /\ \A i \in 5..8 : m[i] = 0
    \/ m[4] >= Base \div 2 /\ \A i \in 5..8 : m[i] = Base - 1

\* C9: a column built in bulk from host values decodes to those values
\* (UInt64, Int64, String verbatim; every Decimal mantissa appended through
\* column_decimal_append_bulk decodes to the same 64-bit value), and a
\* Decimal row of a result block decodes to the low 64 bits of its 128-bit
\* mantissa, which is the stored mantissa exactly when that lies in the
\* signed 64-bit range.
C9_RoundTrip ==
    /\ call.op = "column_decimal_append_bulk" =>
        \A k \in 1..Len(call.values) :
            DecodedOfLast(k) = enif_make_int64(call.values[k])
    /\ call.op = "column_int64_append_bulk" =>
        \A k \in 1..Len(call.values) :
            DecodedOfLast(k) = enif_make_int64(call.values[k])
    /\ call.op = "column_uint64_append_bulk" =>
        \A k \in 1..Len(call.values) :
            DecodedOfLast(k) = enif_make_uint64(call.values[k])
    /\ call.op = "column_string_append_bulk" =>
        \A k \in 1..Len(call.values) :
            DecodedOfLast(k) = enif_make_binary(call.values[k])
    /\ call.op \in {"column_decimal_append_bulk", "column_int64_append_bulk",
                    "column_uint64_append_bulk", "column_string_append_bulk"} =>
        Len(column_to_elixir_list(cols[call.col]).v) = Size(call.pre) + Len(call.values)
    /\ \A i \in 1..Len(sel.blocks) :
        \A r \in 1..sel.blocks[i].rows :
            LET stored == sel.blocks[i].columns[1].col.data[r]
                d == sel.all_maps[RowsBefore(sel.blocks, i) + r]["d"]
            IN  /\ d.t = "int64"
                /\ \A j \in 1..4 : d.v[j] = stored[j]
                /\ (Int128(d.v) = stored) <=> InInt64Range(stored)

\* C9 witness: the least int64 was appended in bulk as a mantissa and decodes
\* to itself, and a result held the mantissas 5 and 2^64 + 5, both decoded to 5
C9_WitnessBothSides ==
    /\ call.op = "column_decimal_append_bulk"
    /\ \E k \in 1..Len(call.values) :
         /\ call.values[k] = <<0, 0, 0, Base \div 2>>
         /\ DecodedOfLast(k) = enif_make_int64(<<0, 0, 0, Base \div 2>>)
    /\ sel.pc = "returned"
    /\ \E i, j \in 1..Len(sel.blocks) :
         /\ sel.blocks[i].rows = 1 /\ sel.blocks[j].rows = 1
         /\ sel.blocks[i].columns[1].col.data[1] = <<5, 0, 0, 0, 1, 0, 0, 0>>
         /\ sel.blocks[j].columns[1].col.data[1] = Int128(U64(5))
         /\ sel.all_maps[RowsBefore(sel.blocks, i) + 1]["d"] = enif_make_int64(U64(5))
         /\ sel.all_maps[RowsBefore(sel.blocks, j) + 1]["d"] = enif_make_int64(U64(5))

---------------------------------------------------------------------------
(* Nullable columns: bulk append of values and null flags, then decode. *)

NullableTypes ==
    {"Nullable(UInt64)", "Nullable(Int64)", "Nullable(String)", "Nullable(Float64)"}

\* inbound null flags: false, true, and a flag whose low 8 bits are zero
FlagValues == {U64(0), U64(1), U64(256)}

NullableInts == {U64(10), U64(20)}

\* doubles are carried and stored unconverted: two distinct ones
Float64Values == {"1.5", "-0.25"}

\* what a read past the end of the nulls vector does
FlagReads == {"crash", U64(1)}

InitNullable == cols = <<>> /\ InitCommon

\* the value sequences that still fit the column behind handle c
Fitting(S, c) ==
    IF c \in DOMAIN cols /\ Size(cols[c]) <= MaxRows
    THEN SeqsUpTo(S, IF MaxRows - Size(cols[c]) < MaxBulk
                     THEN MaxRows - Size(cols[c]) ELSE MaxBulk)
    ELSE {}

NextNullable ==
    \/ cols = <<>> /\ UNCHANGED pending /\ \E T \in NullableTypes : column_create(T)
    \/ UNCHANGED pending /\
         \E v \in Fitting(NullableInts, 1), n \in SeqsUpTo(FlagValues, MaxBulk), ub \in FlagReads :
            column_nullable_uint64_append_bulk(1, v, n, ub)
    \/ UNCHANGED pending /\
         \E v \in Fitting(NullableInts, 1), n \in SeqsUpTo(FlagValues, MaxBulk), ub \in FlagReads :
            column_nullable_int64_append_bulk(1, v, n, ub)
    \/ UNCHANGED pending /\
         \E v \in Fitting(StringValues, 1), n \in SeqsUpTo(FlagValues, MaxBulk), ub \in FlagReads :
            column_nullable_string_append_bulk(1, v, n, ub)
    \/ UNCHANGED pending /\
         \E v \in Fitting(Float64Values, 1), n \in SeqsUpTo(FlagValues, MaxBulk), ub \in FlagReads :
            column_nullable_float64_append_bulk(1, v, n, ub)

SpecNullable == InitNullable /\ [][NextNullable]_vars

NullableBulkOps ==
    {"column_nullable_uint64_append_bulk", "column_nullable_int64_append_bulk",
     "column_nullable_string_append_bulk", "column_nullable_float64_append_bulk"}

\* the term a non-null value of the last nullable append decodes to
NullableValueTerm(op, value) ==
    CASE op = "column_nullable_uint64_append_bulk" -> enif_make_uint64(value)
      [] op = "column_nullable_int64_append_bulk" -> enif_make_int64(value)
      [] op = "column_nullable_string_append_bulk" -> enif_make_binary(value)
      [] op = "column_nullable_float64_append_bulk" -> enif_make_double(value)

IsBooleanFlags(nulls) == \A k \in 1..Len(nulls) : nulls[k] \in {U64(0), U64(1)}

\* C10: after a nullable bulk append of values and boolean null flags of the
\* same length, the decoded column has one entry per row; the entry of every
\* appended row is nil where its flag is 1 and the appended value where its
\* flag is 0, so a value written at a null position is not in the output.
C10_NullableRoundTrip ==
    (/\ call.op \in NullableBulkOps
     /\ call.status = "ok"
     /\ Len(call.values) = Len(call.nulls)
     /\ IsBooleanFlags(call.nulls)) =>
        LET decoded == column_to_elixir_list(cols[call.col]).v IN
        /\ Size(cols[call.col]) = Size(call.pre) + Len(call.values)
        /\ Len(decoded) = Size(cols[call.col])
        /\ \A k \in 1..Size(call.pre) : decoded[k] = column_to_elixir_list(call.pre).v[k]
        /\ \A k \in 1..Len(call.values) :
            decoded[Size(call.pre) + k] =
                IF call.nulls[k] = U64(1) THEN enif_make_atom("nil")
                ELSE NullableValueTerm(call.op, call.values[k])

\* C10 witness: values [10, 20] with nulls [0, 1] were appended to a
\* Nullable(UInt64) column, which decodes to [10, nil]
C10_WitnessTenNil ==
    /\ call.op = "column_nullable_uint64_append_bulk"
    /\ call.values = <<U64(10), U64(20)>>
    /\ call.nulls = <<U64(0), U64(1)>>
    /\ column_to_elixir_list(cols[call.col]) =
          enif_make_list_from_array(<<enif_make_uint64(U64(10)), enif_make_atom("nil")>>)

\* C24: in every nullable bulk append of values and null flags of the same
\* length, a row is stored as null exactly when its 64-bit flag is not zero:
\* every non-zero flag, also one of 256 or more whose low 8 bits are zero,
\* makes the row decode to nil, and flag 0 makes it decode to the value.
C24_NullExactlyWhenFlagNonZero ==
    (/\ call.op \in NullableBulkOps
     /\ call.status = "ok"
     /\ Len(call.values) = Len(call.nulls)) =>
        LET decoded == column_to_elixir_list(cols[call.col]).v IN
        /\ Len(decoded) = Size(call.pre) + Len(call.values)
        /\ \A k \in 1..Len(call.values) :
            /\ IsNull(cols[call.col], Size(call.pre) + k - 1)
                  <=> (call.nulls[k] # U64(0))
            /\ decoded[Size(call.pre) + k] =
                  IF call.nulls[k] # U64(0) THEN enif_make_atom("nil")
                  ELSE NullableValueTerm(call.op, call.values[k])

---------------------------------------------------------------------------
(* Bulk append against single-value append: the same values go in bulk to  *)
(* column 1 and one at a time, in order, to column 2 of the same type.      *)

BulkTypes == {"UInt64", "Int64", "String", "Float64", "DateTime"}

BulkInts == {U64(1), <<7, 0, 1, 0>>, I64(-1)}

InitBulk ==
    /\ \E T \in BulkTypes : cols = <<CreateColumnByType(T), CreateColumnByType(T)>>
    /\ InitCommon

NextBulk ==
    \/ \E v \in Fitting(BulkInts, 1) : column_uint64_append_bulk(1, v) /\ pending' = pending \o v
    \/ \E v \in Fitting(BulkInts, 1) : column_int64_append_bulk(1, v) /\ pending' = pending \o v
    \/ \E v \in Fitting(StringValues, 1) : column_string_append_bulk(1, v) /\ pending' = pending \o v
    \/ \E v \in Fitting(Float64Values, 1) : column_float64_append_bulk(1, v) /\ pending' = pending \o v
    \/ \E v \in Fitting(BulkInts, 1) : column_datetime_append_bulk(1, v) /\ pending' = pending \o v
    \/ pending # <<>> /\ column_uint64_append(2, Head(pending)) /\ pending' = Tail(pending)
    \/ pending # <<>> /\ column_int64_append(2, Head(pending)) /\ pending' = Tail(pending)
    \/ pending # <<>> /\ column_string_append(2, Head(pending)) /\ pending' = Tail(pending)
    \/ pending # <<>> /\ column_float64_append(2, Head(pending)) /\ pending' = Tail(pending)
    \/ pending # <<>> /\ column_datetime_append(2, Head(pending)) /\ pending' = Tail(pending)

SpecBulk == InitBulk /\ [][NextBulk]_vars

\* C7: whenever every value appended in bulk to column 1 has also been
\* appended singly, in order, to column 2 (which started in the same state),
\* the two columns have the same size and the same value at every index, and
\* decode alike.
C7_BulkEqualsSingle ==
    pending = <<>> =>
        /\ Size(cols[1]) = Size(cols[2])
        /\ \A i \in 1..Size(cols[1]) : cols[1].data[i] = cols[2].data[i]
        /\ column_to_elixir_list(cols[1]) = column_to_elixir_list(cols[2])

\* C7 witness: a DateTime column took 2^32 + 7 and another value in one bulk
\* call, the other column took them one at a time, and both hold 7 first
C7_WitnessBulkAndSingle ==
    /\ pending = <<>>
    /\ call.op = "column_datetime_append"
    /\ Size(cols[1]) >= 2
    /\ Size(cols[2]) = Size(cols[1])
    /\ cols[1].data[1] = <<7, 0>>
    /\ cols[2].data[1] = <<7, 0>>


---------------------------------------------------------------------------
(* Array composition: column_array_append_from_column of column.cpp. *)

\* the two errors the loop throws, as encode_clickhouse_error encodes them
MonotonicityError == RuntimeError("Offsets must be monotonically increasing")

RangeError(offset, nested_size) ==
    RuntimeError("Offset " \o ToString(offset) \o " exceeds nested column size "
                 \o ToString(nested_size))

\* the loop's second check: offset > nested_size
ExceedsNested_never(offset, nested_size) == FALSE

ExceedsNested(offset, nested_size) == offset > nested_size

\* auto slice = nested_col->Slice(prev, count), count being offset - prev
slice_count_is_offset(nested_col, prev, offset) == Slice(nested_col, prev, offset)

slice(nested_col, prev, offset) == Slice(nested_col, prev, offset - prev)

\* the loop over the offsets: the array column as the loop leaves it, the
\* exception that ended it ("none" when it ran to its end), and the
\* (begin, count) of every Slice it made
RECURSIVE ArrayAppendLoop(_, _, _, _, _)
ArrayAppendLoop(array_col, nested_col, offsets, prev, slices) ==
    IF offsets = <<>>
    THEN [col |-> array_col, thrown |-> "none", slices |-> slices]
    ELSE LET offset == Head(offsets)
             nested_size == Size(nested_col)
         IN  IF offset < prev
             THEN [col |-> array_col, thrown |-> "monotonicity",
                   error |-> MonotonicityError, slices |-> slices]
             ELSE IF ExceedsNested(offset, nested_size)
             THEN [col |-> array_col, thrown |-> "range",
                   error |-> RangeError(offset, nested_size), slices |-> slices]
             ELSE ArrayAppendLoop(
                      AppendAsColumn(array_col, slice(nested_col, prev, offset)),
                      nested_col, Tail(offsets), offset,
                      Append(slices, [begin |-> prev, count |-> offset - prev]))

\* column_array_append_from_column(array_col_res, nested_col_res, offsets):
\* what the loop appended before it threw stays in the array column
column_array_append_from_column(a, n, offsets) ==
    /\ Alive
    /\ a \in DOMAIN cols /\ n \in DOMAIN cols
    /\ cols[a].kind = "Array"
    /\ cols[a].nested.kind = cols[n].kind
    /\ Size(cols[a]) + Len(offsets) <= MaxOffsets
    /\ LET r == ArrayAppendLoop(cols[a], cols[n], offsets, 0, <<>>) IN
        /\ cols' = [cols EXCEPT ![a] = r.col]
        /\ call' = IF r.thrown = "none"
                   THEN [op |-> "column_array_append_from_column", col |-> a,
                         nested |-> n, offsets |-> offsets, pre |-> cols[a],
                         slices |-> r.slices, status |-> "ok"]
                   ELSE [op |-> "column_array_append_from_column", col |-> a,
                         nested |-> n, offsets |-> offsets, pre |-> cols[a],
                         slices |-> r.slices, status |-> "error",
                         thrown |-> r.thrown, error |-> r.error]
    /\ UNCHANGED <<blk, sel>>


---------------------------------------------------------------------------
(* Array composition under offsets of every shape: an array column (handle 1)
   is filled from a nested column (handle 2). *)

NestedStrings == <<"a", "b", "c", "d", "e">>

\* a String column holding the first k of NestedStrings
StringColumn(k) ==
    [CreateColumnByType("String") EXCEPT !.data = SubSeq(NestedStrings, 1, k)]

\* an Array(String) column holding the rows ["a"] and ["b", "c"]
ArrayOfStrings ==
    AppendAsColumn(
        AppendAsColumn(CreateColumnByType("Array(String)"),
                       Slice(StringColumn(3), 0, 1)),
        Slice(StringColumn(3), 1, 2))

\* offsets handed to the NIF: inside, at and beyond the nested sizes in use
OffsetValues == {1, 2, 5, 6}

InitArray ==
    /\ \/ \E k \in {0, 2, 5} :
            cols = <<CreateColumnByType("Array(String)"), StringColumn(k)>>
       \/ cols = <<CreateColumnByType("Array(Array(String))"), ArrayOfStrings>>
    /\ InitCommon

NextArray ==
    \/ UNCHANGED pending /\
         \E o \in SeqsUpTo(OffsetValues, MaxOffsets - Size(cols[1])) :
            column_array_append_from_column(1, 2, o)
    \/ UNCHANGED pending /\ cols[2].kind = "String" /\
         column_string_append(2, "f")

SpecArray == InitArray /\ [][NextArray]_vars

IsArrayAppend == call.op = "column_array_append_from_column"

NonDecreasing(offsets) == \A i \in 2..Len(offsets) : offsets[i - 1] <= offsets[i]

Decreases(offsets, i) == i >= 2 /\ offsets[i] < offsets[i - 1]

OffsetBefore(offsets, i) == IF i = 1 THEN 0 ELSE offsets[i - 1]

\* C1: with non-decreasing offsets, none above the nested column's size, the
\* call succeeds, the array column has exactly Len(offsets) more rows, its
\* earlier rows decode as before, and the i-th new row decodes to the nested
\* values at indices [offsets[i-1], offsets[i]), offsets[-1] being 0.
C1_ArrayAppendFromColumn ==
    (/\ IsArrayAppend
     /\ NonDecreasing(call.offsets)
     /\ \A i \in 1..Len(call.offsets) : call.offsets[i] <= Size(cols[call.nested]))
    => LET before == column_to_elixir_list(call.pre).v
           after == column_to_elixir_list(cols[call.col]).v
           nested == column_to_elixir_list(cols[call.nested]).v
       IN  /\ call.status = "ok"
           /\ Size(cols[call.col]) = Size(call.pre) + Len(call.offsets)
           /\ Len(after) = Len(before) + Len(call.offsets)
           /\ SubSeq(after, 1, Len(before)) = before
           /\ \A i \in 1..Len(call.offsets) :
                 after[Len(before) + i] =
                     enif_make_list_from_array(
                         SubSeq(nested, OffsetBefore(call.offsets, i) + 1,
                                call.offsets[i]))

\* nested [a,b,c,d,e] with offsets [2,2,5] has been appended and decodes to
\* [[a,b],[],[c,d,e]]
C1_WitnessTwoTwoFive ==
    /\ IsArrayAppend
    /\ call.offsets = <<2, 2, 5>>
    /\ call.status = "ok"
    /\ column_to_elixir_list(cols[1]) =
         enif_make_list_from_array(<<
            enif_make_list_from_array(<<enif_make_binary("a"), enif_make_binary("b")>>),
            enif_make_list_from_array(<<>>),
            enif_make_list_from_array(<<enif_make_binary("c"), enif_make_binary("d"),
                                        enif_make_binary("e")>>)>>)

\* C2: a call whose offsets decrease somewhere fails with the monotonicity
\* error and leaves the array column's row count as it was before the call.
C2_NonMonotonicAppendsNothing ==
    (IsArrayAppend /\ \E i \in 1..Len(call.offsets) : Decreases(call.offsets, i))
    => /\ call.status = "error"
       /\ call.error = MonotonicityError
       /\ Size(cols[call.col]) = Size(call.pre)

\* every Slice the last call made lies inside the nested column
SlicesInside ==
    \A k \in 1..Len(call.slices) :
        call.slices[k].begin + call.slices[k].count <= Size(cols[call.nested])

Exceeding(offsets, nested_size) ==
    {i \in 1..Len(offsets) : offsets[i] > nested_size}

Min(S) == CHOOSE m \in S : \A x \in S : m <= x

\* C3 as stated: a call with any offset above the nested column's size fails
\* with the range error, and no call slices the nested column past its end.
C3_RangeErrorWheneverExceeds ==
    IsArrayAppend =>
        /\ SlicesInside
        /\ Exceeding(call.offsets, Size(cols[call.nested])) # {} =>
              /\ call.status = "error"
              /\ call.thrown = "range"

\* C3, amended: a call with any offset above the nested column's size fails:
\* with the range error naming the first such offset when no offset before it
\* is smaller than its predecessor, with the monotonicity error otherwise;
\* and no call slices the nested column past its end.
C3_FailsWheneverExceeds ==
    IsArrayAppend =>
        /\ SlicesInside
        /\ LET nested_size == Size(cols[call.nested])
               over == Exceeding(call.offsets, nested_size)
           IN  over # {} =>
                 /\ call.status = "error"
                 /\ IF \E i \in 1..Min(over) : Decreases(call.offsets, i)
                    THEN /\ call.thrown = "monotonicity"
                         /\ call.error = MonotonicityError
                    ELSE /\ call.thrown = "range"
                         /\ call.error = RangeError(call.offsets[Min(over)], nested_size)

\* offsets [5,1,6] on a nested column of 5 rows: the call has failed on the
\* decreasing offset, before it reached the offset beyond the nested column
C3_WitnessDecreaseBeforeExcess ==
    /\ IsArrayAppend
    /\ call.offsets = <<5, 1, 6>>
    /\ Size(cols[call.nested]) = 5
    /\ call.status = "error"
    /\ call.thrown = "monotonicity"


---------------------------------------------------------------------------
(* Blocks: two local columns (handles 1 and 2) are filled and put into the
   local block, and a select session projects the blocks of a result to rows.
   The local resources and the select session share no state, so each is
   run from the initial state without the other. *)

BlockInts == {U64(1), U64(2)}

ColumnNames == {"id", "name"}

\* result columns a server sends: id (UInt64) and name (String) of n rows,
\* and a Tuple column of one row
IdColumn(n) ==
    [CreateColumnByType("UInt64") EXCEPT !.data = SubSeq(<<U64(1), U64(2)>>, 1, n)]

NameColumn(n) ==
    [CreateColumnByType("String") EXCEPT !.data = SubSeq(<<"x", "y">>, 1, n)]

TupleColumn == [kind |-> "Tuple", columns |-> <<IdColumn(1), NameColumn(1)>>]

\* the named columns of the data packets: equal lengths, differing lengths,
\* no rows, a column of a kind the projection has no branch for, and a
\* column name sent twice
Packets ==
    {<<[name |-> "id", col |-> IdColumn(2)], [name |-> "name", col |-> NameColumn(2)]>>,
     <<[name |-> "id", col |-> IdColumn(2)], [name |-> "name", col |-> NameColumn(1)]>>,
     <<[name |-> "id", col |-> IdColumn(1)], [name |-> "name", col |-> NameColumn(2)]>>,
     <<[name |-> "id", col |-> IdColumn(0)], [name |-> "name", col |-> NameColumn(0)]>>,
     <<[name |-> "id", col |-> IdColumn(1)], [name |-> "t", col |-> TupleColumn]>>,
     <<[name |-> "id", col |-> IdColumn(1)], [name |-> "id", col |-> IdColumn(1)]>>}

Init ==
    /\ cols = <<CreateColumnByType("UInt64"), CreateColumnByType("String")>>
    /\ InitCommon

Next ==
    \/ sel.pc = "idle" /\ UNCHANGED pending /\
         \E v \in Fitting(BlockInts, 1) : column_uint64_append_bulk(1, v)
    \/ sel.pc = "idle" /\ UNCHANGED pending /\
         \E v \in Fitting(StringValues, 2) : column_string_append_bulk(2, v)
    \/ sel.pc = "idle" /\ UNCHANGED pending /\ Len(blk.columns) < Len(cols) /\
         \E name \in ColumnNames, c \in DOMAIN cols : block_append_column(name, c)
    \/ call = NoCall /\ UNCHANGED pending /\ client_select
    \/ UNCHANGED pending /\ \E p \in Packets, ub \in UBOutcomes : select_callback(p, ub)
    \/ UNCHANGED pending /\ client_select_return

Spec == Init /\ [][Next]_vars

\* C4: all columns held by the block have the same row count, also after
\* values are appended to a column that the block already holds.
C4_BlockColumnsSameRowCount ==
    \A i, j \in 1..Len(blk.columns) :
        Size(cols[blk.columns[i].col]) = Size(cols[blk.columns[j].col])

\* the named columns do not all have the same number of rows
DifferingLengths(named) ==
    \E i, j \in 1..Len(named) : Size(named[i].col) # Size(named[j].col)

C6_BlockToMapsRows ==
    (sel.packet # <<>> /\ ~DifferingLengths(sel.packet)) =>
        LET block == ReadBlock(EmptyBlock, sel.packet).block
            row_count == block_row_count(block)
        IN  /\ sel.pc \in {"selecting", "returned"}
            /\ Len(sel.produced) = row_count
            /\ \A r \in 1..row_count :
                 /\ sel.produced[r] # Garbage
                 /\ DOMAIN sel.produced[r] =
                        {block.columns[c].name : c \in 1..Len(block.columns)}
                 /\ \A c \in 1..Len(block.columns) :
                      LET decoded == column_to_elixir_list(block.columns[c].col).v
                      IN  /\ Len(decoded) >= r
                          /\ sel.produced[r][block.columns[c].name] = decoded[r]

\* C20: a column whose top-level kind the decoder does not handle (Tuple,
\* Map, LowCardinality) decodes to the empty list without failing: standalone
\* and as the row of an array by column_to_elixir_list, and as a column of a
\* block with rows projected by block_to_maps_impl, which neither fails nor
\* puts a value that was never decoded into a record.  Stated of the packet
\* delivered last.
C20_UnhandledKindDecodesEmpty ==
    (sel.packet # <<>> /\ ~DifferingLengths(sel.packet)) =>
        \A c \in DOMAIN sel.packet :
            LET col == sel.packet[c].col
                array == [kind |-> "Array", offsets |-> <<Size(col)>>,
                          nested |-> col]
            IN  (col.kind \in {"Tuple", "Map", "LowCardinality"} /\ Size(col) > 0) =>
                    /\ column_to_elixir_list(col) = enif_make_list_from_array(<<>>)
                    /\ column_to_elixir_list(array) =
                          enif_make_list_from_array(
                              <<enif_make_list_from_array(<<>>)>>)
                    /\ sel.pc \in {"selecting", "returned"}
                    /\ \A r \in DOMAIN sel.produced :
                          /\ sel.produced[r] # Garbage
                          /\ \A n \in DOMAIN sel.produced[r] :
                                sel.produced[r][n] # Garbage

\* C22: client_select turns each block into rows inside the callback of that
\* block, so that at every moment of a Select, and when it has returned, the
\* rows collected are the rows of the blocks delivered so far, block after
\* block in delivery order and in row order inside a block; a block of no
\* rows adds nothing, and the result is the list of the rows collected, the
\* empty list when every block was empty.
C22_SelectConcatenatesBlocks ==
    sel.pc \in {"selecting", "returned"} =>
        /\ Len(sel.all_maps) = RowsBefore(sel.blocks, Len(sel.blocks) + 1)
        /\ \A i \in 1..Len(sel.blocks) :
              LET rows == block_to_maps_impl(sel.blocks[i], "garbage").maps IN
              /\ Len(rows) = sel.blocks[i].rows
              /\ \A r \in 1..Len(rows) :
                    sel.all_maps[RowsBefore(sel.blocks, i) + r] = rows[r]
        /\ sel.packet # <<>> =>
              /\ Len(sel.blocks) > 0
              /\ sel.blocks[Len(sel.blocks)] = ReadBlock(EmptyBlock, sel.packet).block
              /\ sel.produced =
                    SubSeq(sel.all_maps, Len(sel.all_maps) - Len(sel.produced) + 1,
                           Len(sel.all_maps))
        /\ sel.pc = "returned" =>
              /\ sel.result = enif_make_list_from_array(sel.all_maps)
              /\ (\A i \in 1..Len(sel.blocks) : sel.blocks[i].rows = 0)
                    => sel.result = enif_make_list_from_array(<<>>)

\* C22 witness: a Select that delivered a block of one row and then the
\* block of rows (1, x) and (2, y) has returned the three rows in that order
C22_WitnessOneThenTwoRows ==
    /\ sel.pc = "returned"
    /\ Len(sel.blocks) = 2
    /\ sel.blocks[1].rows = 1
    /\ sel.blocks[2].rows = 2
    /\ sel.result.v[2] = [id |-> enif_make_uint64(U64(1)), name |-> enif_make_binary("x")]
    /\ sel.result.v[3] = [id |-> enif_make_uint64(U64(2)), name |-> enif_make_binary("y")]


---------------------------------------------------------------------------
(* Nullable bulk appends handed values and null flags of differing lengths. *)

\* C11: a nullable bulk append whose values and nulls differ in length, nulls
\* being the shorter or the longer, fails with an error, appends nothing and
\* reads no null flag outside nulls.
C11_LengthMismatchFails ==
    (call.op \in NullableBulkOps /\ Len(call.values) # Len(call.nulls))
    => /\ call.status = "error"
       /\ Size(cols[call.col]) = Size(call.pre)


---------------------------------------------------------------------------
(* UUID columns: column_uuid_append_bulk of column.cpp, and the UUID text of
   both decoders of select.cpp. *)

\* the loop without the comparison of the two lengths, run over the shorter
column_uuid_append_bulk_unchecked(c, highs, lows) ==
    /\ Alive
    /\ c \in DOMAIN cols
    /\ cols[c].kind = "UUID"
    /\ Size(cols[c]) + Len(highs) <= MaxRows
    /\ LET n == IF Len(highs) < Len(lows) THEN Len(highs) ELSE Len(lows) IN
        cols' = [cols EXCEPT ![c].data = @ \o [k \in 1..n |-> <<highs[k], lows[k]>>]]
    /\ call' = [op |-> "column_uuid_append_bulk", col |-> c, highs |-> highs,
                lows |-> lows, status |-> "ok", pre |-> cols[c]]
    /\ UNCHANGED <<blk, sel>>

\* column_uuid_append_bulk(col_res, highs, lows): the lengths are compared
\* before the loop; each UUID is the pair {highs[i], lows[i]}
column_uuid_append_bulk(c, highs, lows) ==
    /\ Alive
    /\ c \in DOMAIN cols
    /\ cols[c].kind = "UUID"
    /\ Size(cols[c]) + Len(highs) <= MaxRows
    /\ IF Len(highs) # Len(lows)
       THEN /\ call' = [op |-> "column_uuid_append_bulk", col |-> c,
                        highs |-> highs, lows |-> lows, status |-> "error",
                        pre |-> cols[c],
                        error |-> RuntimeError("UUID highs and lows lists must be same length")]
            /\ UNCHANGED cols
       ELSE /\ cols' = [cols EXCEPT
                          ![c].data = @ \o [k \in 1..Len(highs) |-> <<highs[k], lows[k]>>]]
            /\ call' = [op |-> "column_uuid_append_bulk", col |-> c,
                        highs |-> highs, lows |-> lows, status |-> "ok",
                        pre |-> cols[c]]
    /\ UNCHANGED <<blk, sel>>

\* 0x0123456789abcdef and 0x0000000f00010010
HighValues == {<<52719, 35243, 17767, 291>>, <<16, 1, 15, 0>>}

\* 0xfedcba9876543210 and 0x000a00000000b00c
LowValues == {<<12816, 30292, 47768, 65244>>, <<45068, 0, 0, 10>>}

\* the data packets of a UUID result column "u": every pair alone
UUIDPackets ==
    {<<[name |-> "u", col |-> [kind |-> "UUID", data |-> <<<<h, l>>>>]]>> :
        h \in HighValues \cup {U64(0)}, l \in LowValues \cup {U64(0)}}

InitUUID ==
    /\ cols = <<CreateColumnByType("UUID")>>
    /\ InitCommon

\* the local column and the select session share no state: each is run from
\* the initial state without the other
NextUUID ==
    \/ sel.pc = "idle" /\ UNCHANGED pending /\
         \E h \in Fitting(HighValues, 1), l \in SeqsUpTo(LowValues, MaxBulk) :
            column_uuid_append_bulk(1, h, l)
    \/ call = NoCall /\ UNCHANGED pending /\ client_select
    \/ UNCHANGED pending /\ \E p \in UUIDPackets, ub \in UBOutcomes : select_callback(p, ub)
    \/ UNCHANGED pending /\ client_select_return

SpecUUID == InitUUID /\ [][NextUUID]_vars

\* C12: column_uuid_append_bulk with highs and lows of different lengths
\* fails with the length-mismatch error and leaves the column's size as it
\* was; with equal lengths n it appends exactly n UUIDs after the earlier
\* ones, the i-th being the pair (highs[i], lows[i]).
C12_UUIDAppendBulk ==
    call.op = "column_uuid_append_bulk" =>
        IF Len(call.highs) # Len(call.lows)
        THEN /\ call.status = "error"
             /\ call.error = RuntimeError("UUID highs and lows lists must be same length")
             /\ Size(cols[call.col]) = Size(call.pre)
             /\ cols[call.col] = call.pre
        ELSE /\ call.status = "ok"
             /\ Size(cols[call.col]) = Size(call.pre) + Len(call.highs)
             /\ SubSeq(cols[call.col].data, 1, Size(call.pre)) = call.pre.data
             /\ \A i \in 1..Len(call.highs) :
                  cols[call.col].data[Size(call.pre) + i] = <<call.highs[i], call.lows[i]>>

\* a call with one high and two lows has failed on a column that held one
\* UUID, and still holds just that one
C12_WitnessOneHighTwoLows ==
    /\ call.op = "column_uuid_append_bulk"
    /\ Len(call.highs) = 1 /\ Len(call.lows) = 2
    /\ call.status = "error"
    /\ Size(call.pre) = 1
    /\ Size(cols[call.col]) = 1

\* the canonical text of the UUID (high, low): bits 63..32, 31..16, 15..0 of
\* high, then bits 63..48 and 47..0 of low, every group at its full width
Canonical(high, low) ==
    LimbHex(high[4]) \o LimbHex(high[3]) \o "-" \o LimbHex(high[2]) \o "-"
        \o LimbHex(high[1]) \o "-" \o LimbHex(low[4]) \o "-"
        \o LimbHex(low[3]) \o LimbHex(low[2]) \o LimbHex(low[1])

\* C13: every UUID (high, low) decodes to its 36-character canonical text,
\* lower-case hex in 8-4-4-4-12 grouping with every group zero-padded, both
\* through column_to_elixir_list and through the row projection of a result.
C13_UUIDCanonicalText ==
    /\ \A i \in 1..Size(cols[1]) :
          LET u == cols[1].data[i]
              text == column_to_elixir_list(cols[1]).v[i]
          IN  /\ text = enif_make_binary(Canonical(u[1], u[2]))
              /\ Len(text.v) = 36
    /\ \A b \in 1..Len(sel.blocks) :
          \A r \in 1..sel.blocks[b].rows :
             LET col == sel.blocks[b].columns[1].col
                 u == col.data[r]
                 row == sel.all_maps[RowsBefore(sel.blocks, b) + r]
             IN  /\ row["u"] = enif_make_binary(Canonical(u[1], u[2]))
                 /\ row["u"] = column_to_elixir_list(col).v[r]
                 /\ Len(row["u"].v) = 36

\* the UUID (0x0123456789abcdef, 0xfedcba9876543210) was appended and decodes
\* to 01234567-89ab-cdef-fedc-ba9876543210
C13_WitnessAppended ==
    /\ call.op = "column_uuid_append_bulk"
    /\ call.status = "ok"
    /\ \E i \in 1..Size(cols[1]) :
         /\ cols[1].data[i] = <<<<52719, 35243, 17767, 291>>, <<12816, 30292, 47768, 65244>>>>
         /\ column_to_elixir_list(cols[1]).v[i] =
                enif_make_binary("01234567-89ab-cdef-fedc-ba9876543210")


---------------------------------------------------------------------------
(* Tuple columns: column_tuple_append_from_columns of column.cpp.  The tuple
   column is handle 1; the columns behind handles 2, 3 and 4 are handed to it
   as children. *)

\* a tuple that takes itself for a 3-ary one
TupleSize_three(col) == 3

\* ColumnTuple::TupleSize()
TupleSize(col) == Len(col.columns)

\* no comparison of the children's sizes
AllSameSize_unchecked(columns) == TRUE

\* the loop that compares every child's Size() with that of the first
AllSameSize(columns) ==
    \A i \in 2..Len(columns) : Size(columns[i]) = Size(columns[1])

ArityError(expected, got) ==
    RuntimeError("Column count mismatch: expected " \o ToString(expected)
                 \o ", got " \o ToString(got))

SizeError == RuntimeError("All columns must have the same size")

\* column_tuple_append_from_columns(tuple_col_res, nested_col_resources):
\* the count of children is compared with the tuple's arity, then their
\* sizes with each other, then a temporary tuple of the children is appended
column_tuple_append_from_columns(t, nested) ==
    /\ Alive
    /\ t \in DOMAIN cols
    /\ cols[t].kind = "Tuple"
    /\ \A i \in 1..Len(nested) : nested[i] \in DOMAIN cols
    /\ LET columns == [i \in 1..Len(nested) |-> cols[nested[i]]]
           temp_tuple == [kind |-> "Tuple", columns |-> columns]
           failed(error) ==
               /\ call' = [op |-> "column_tuple_append_from_columns", col |-> t,
                           nested |-> nested, children |-> columns,
                           pre |-> cols[t], status |-> "error", error |-> error]
               /\ UNCHANGED cols
       IN  IF Len(nested) # TupleSize(cols[t])
           THEN failed(ArityError(TupleSize(cols[t]), Len(nested)))
           ELSE IF ~AllSameSize(columns)
           THEN failed(SizeError)
           ELSE /\ Size(cols[t]) + Size(columns[1]) <= MaxRows
                /\ \A i \in 1..Len(nested) : columns[i].kind = cols[t].columns[i].kind
                /\ cols' = [cols EXCEPT ![t] = ColumnAppend(@, temp_tuple)]
                /\ call' = [op |-> "column_tuple_append_from_columns", col |-> t,
                            nested |-> nested, children |-> columns,
                            pre |-> cols[t], status |-> "ok"]
    /\ UNCHANGED <<blk, sel>>

\* the children handed to the tuple column: too few, the right number (of
\* the declared kinds), too many
ChildLists == {<<2>>, <<2, 3>>, <<4, 3>>, <<2, 3, 4>>, <<4, 3, 3>>}

InitTuple ==
    /\ cols = <<CreateColumnByType("Tuple(UInt64, String)"), CreateColumnByType("UInt64"),
                CreateColumnByType("String"), CreateColumnByType("UInt64")>>
    /\ InitCommon

NextTuple ==
    \/ UNCHANGED pending /\ \E v \in Fitting({U64(1)}, 2) : column_uint64_append_bulk(2, v)
    \/ UNCHANGED pending /\ \E v \in Fitting(StringValues, 3) : column_string_append_bulk(3, v)
    \/ UNCHANGED pending /\ column_uint64_append(4, <<7, 0, 1, 0>>)
    \/ UNCHANGED pending /\ \E n \in ChildLists : column_tuple_append_from_columns(1, n)

SpecTuple == InitTuple /\ [][NextTuple]_vars

IsTupleAppend == call.op = "column_tuple_append_from_columns"

\* C14: a call with a number of children other than the tuple column's arity
\* fails with the arity-mismatch error and leaves the tuple column as it was.
C14_ArityMismatchFails ==
    (IsTupleAppend /\ Len(call.nested) # Len(call.pre.columns))
    => /\ call.status = "error"
       /\ call.error = ArityError(Len(call.pre.columns), Len(call.nested))
       /\ Size(cols[call.col]) = Size(call.pre)
       /\ cols[call.col] = call.pre

\* three children of one row each were handed to the 2-ary tuple column
C14_WitnessThreeForTwo ==
    /\ IsTupleAppend
    /\ Len(call.nested) = 3
    /\ \A i \in 1..3 : Size(call.children[i]) = 1
    /\ call.status = "error"
    /\ call.error.message = "Column count mismatch: expected 2, got 3"

\* C15: with the right arity, children that are not all of one length make
\* the call fail with the length-mismatch error and the tuple column is left
\* as it was; children of the declared kinds that all have n rows make it
\* succeed with exactly n more tuple rows after the earlier ones, row j
\* holding element j of every child in order.
C15_LengthsThenLockStep ==
    (IsTupleAppend /\ Len(call.nested) = Len(call.pre.columns))
    => IF \E i, j \in 1..Len(call.children) :
              Size(call.children[i]) # Size(call.children[j])
       THEN /\ call.status = "error"
            /\ call.error = SizeError
            /\ cols[call.col] = call.pre
       ELSE LET n == Size(call.children[1]) IN
            /\ call.status = "ok"
            /\ Size(cols[call.col]) = Size(call.pre) + n
            /\ \A ci \in 1..Len(call.children) :
                 /\ Size(cols[call.col].columns[ci]) = Size(call.pre) + n
                 /\ SubSeq(cols[call.col].columns[ci].data, 1, Size(call.pre)) =
                        call.pre.columns[ci].data
                 /\ \A j \in 1..n :
                      cols[call.col].columns[ci].data[Size(call.pre) + j] =
                          call.children[ci].data[j]

\* two rows were appended in lock-step
C15_WitnessTwoRows ==
    /\ IsTupleAppend
    /\ call.status = "ok"
    /\ Size(call.pre) = 0
    /\ Size(cols[1]) = 2
    /\ cols[1].columns[1].data = <<U64(1), U64(1)>>
    /\ cols[1].columns[2].data = <<"a", "b">>


---------------------------------------------------------------------------
(* LowCardinality columns: column_lowcardinality_append_from_column of
   column.cpp.  The LowCardinality(String) column is handle 1, the String
   source column is handle 2. *)

\* the index of `item` in the dictionary (from 0), or its length if absent
Lookup(dictionary, item) ==
    IF \E k \in 1..Len(dictionary.data) : dictionary.data[k] = item
    THEN (CHOOSE k \in 1..Len(dictionary.data) : dictionary.data[k] = item) - 1
    ELSE Len(dictionary.data)

\* one item appended to a LowCardinality column: an item the dictionary
\* holds is given the index it has there, a new one is added at the end
AppendItem(lc, item) ==
    LET at == Lookup(lc.dictionary, item) IN
    [lc EXCEPT !.index = Append(@, at),
               !.dictionary.data = IF at = Len(@) THEN Append(@, item) ELSE @]

RECURSIVE AppendItems(_, _)
AppendItems(lc, items) ==
    IF items = <<>> THEN lc
    ELSE AppendItems(AppendItem(lc, Head(items)), Tail(items))

\* std::make_shared<ColumnLowCardinality>(source): a dictionary-encoded
\* column of the source's rows
ColumnLowCardinality(source) ==
    AppendItems(EmptyColumn([kind |-> "LowCardinality",
                             nested |-> [kind |-> source.kind]]),
                source.data)

\* the item row n (from 0) of a LowCardinality column stands for
GetItem(lc, n) == lc.dictionary.data[lc.index[n + 1] + 1]

\* Column::Append(column) on a LowCardinality column: every item of the
\* other column is appended to this one
LowCardinalityAppend(lc, other) ==
    AppendItems(lc, [n \in 1..Size(other) |-> GetItem(other, n - 1)])

\* column_lowcardinality_append_from_column(lc_col_res, source_col_res)
column_lowcardinality_append_from_column(l, src) ==
    /\ Alive
    /\ l \in DOMAIN cols /\ src \in DOMAIN cols
    /\ cols[l].kind = "LowCardinality"
    /\ cols[l].dictionary.kind = cols[src].kind
    /\ Size(cols[l]) + Size(cols[src]) <= MaxRows
    /\ LET temp_lc == ColumnLowCardinality(cols[src]) IN
        cols' = [cols EXCEPT ![l] = LowCardinalityAppend(@, temp_lc)]
    /\ call' = [op |-> "column_lowcardinality_append_from_column", col |-> l,
                source |-> cols[src], pre |-> cols[l], status |-> "ok"]
    /\ UNCHANGED <<blk, sel>>

\* values of the source column, the dictionary's default item among them
SourceStrings == {"", "a", "b", "c"}

InitLowCardinality ==
    /\ cols = <<CreateColumnByType("LowCardinality(String)"), CreateColumnByType("String")>>
    /\ InitCommon

NextLowCardinality ==
    \/ UNCHANGED pending /\ \E v \in Fitting(SourceStrings, 2) :
                               column_string_append_bulk(2, v)
    \/ UNCHANGED pending /\ column_lowcardinality_append_from_column(1, 2)

SpecLowCardinality == InitLowCardinality /\ [][NextLowCardinality]_vars

\* C16: after any calls of column_lowcardinality_append_from_column the
\* dictionary of the column holds no entry twice, and the column's rows
\* decode to the values of the appended source columns in order: after each
\* call, to what they decoded to before followed by the source's values.
C16_DictionaryUniqueRowsDecode ==
    /\ \A i, j \in 1..Len(cols[1].dictionary.data) :
          cols[1].dictionary.data[i] = cols[1].dictionary.data[j] => i = j
    /\ call.op = "column_lowcardinality_append_from_column" =>
          column_to_elixir_list(cols[call.col]).v =
              column_to_elixir_list(call.pre).v \o column_to_elixir_list(call.source).v


---------------------------------------------------------------------------
(* The type registry: column_create with descriptors that parse and with
   descriptors that do not, and column_size of what it returns. *)

MaxColumns == 2

\* descriptors that do not parse
UnknownTypes == {"", "NotAType", "Array(", "Nullable(UInt64"}

InitCreate == cols = <<>> /\ InitCommon

NextCreate ==
    \/ UNCHANGED pending /\ Len(cols) < MaxColumns /\
         \E T \in SupportedTypes : column_create(T)
    \/ UNCHANGED pending /\ Len(cols) < MaxColumns /\
         \E T \in UnknownTypes : column_create(T)

SpecCreate == InitCreate /\ [][NextCreate]_vars

\* C17: column_create of a supported descriptor returns a column, and
\* column_size of a column nothing was appended to is 0.
C17_CreatedColumnIsEmpty ==
    /\ (call.op = "column_create" /\ call.type_name \in SupportedTypes)
       => /\ call.status = "ok"
          /\ call.col = Len(cols)
          /\ column_size(call.col) = 0
    /\ \A c \in DOMAIN cols : column_size(c) = 0

\* a LowCardinality(String) column, whose dictionary holds its default item,
\* was created
C17_WitnessLowCardinality ==
    /\ call.op = "column_create"
    /\ call.type_name = "LowCardinality(String)"
    /\ call.status = "ok"
    /\ cols[call.col].dictionary.data = <<"">>
    /\ column_size(call.col) = 0

\* C18: column_create of a descriptor that does not parse fails with the
\* error that names the descriptor as a type no column could be created of,
\* returns no resource, and no resource ever holds a null column pointer.
C18_UnknownTypeFails ==
    /\ (call.op = "column_create" /\ call.type_name \notin SupportedTypes)
       => /\ call.status = "error"
          /\ call.error = [type |-> "unknown",
                           message |-> "Failed to create column of type: "
                                       \o call.type_name]
    /\ \A c \in DOMAIN cols : cols[c] # nullptr

\* column_create("NotAType") has failed after a column was created
C18_WitnessNotAType ==
    /\ call.op = "column_create"
    /\ call.type_name = "NotAType"
    /\ call.status = "error"
    /\ Len(cols) = 1


---------------------------------------------------------------------------
(* The error surface: escape_json_string and encode_clickhouse_error of
   error_encoding.h (minimal.cpp holds the same two functions), and the
   client NIFs that let a failure out.  Texts are sequences of bytes. *)

\* the bytes of "\u00" and of the hex digits, for snprintf("\\u%04x")
HexByte(d) == IF d < 10 THEN 48 + d ELSE 87 + d

\* what escape_json_string writes for one char c (a byte, 0..255).  Whether
\* plain char is signed is the compiler's choice: signed, a byte of 128 or
\* more is a negative char and passes the test c < 0x20.
EscapeChar(c, char_signed) ==
    CASE c = 34 -> <<92, 34>>
      [] c = 92 -> <<92, 92>>
      [] c = 8 -> <<92, 98>>
      [] c = 12 -> <<92, 102>>
      [] c = 10 -> <<92, 110>>
      [] c = 13 -> <<92, 114>>
      [] c = 9 -> <<92, 116>>
      [] OTHER ->
            IF c < 32 \/ (char_signed /\ c >= 128)
            THEN <<92, 117, 48, 48, HexByte(c \div 16), HexByte(c % 16)>>
            ELSE <<c>>

\* escape_json_string(input)
escape_json_string(input, char_signed) ==
    Concat([k \in 1..Len(input) |-> EscapeChar(input[k], char_signed)])

\* the classes of exception the dynamic_cast chain of encode_clickhouse_error
\* tells apart, and two it does not
ExceptionClasses ==
    {"ServerException", "ValidationError", "ProtocolError", "UnimplementedError",
     "OpenSSLError", "CompressionError", "std::system_error",
     "std::runtime_error", "std::out_of_range"}

\* the "type" encode_clickhouse_error writes for an exception of a class
TypeTag(class) ==
    CASE class = "ServerException" -> "server"
      [] class = "ValidationError" -> "validation"
      [] class = "ProtocolError" -> "protocol"
      [] class = "UnimplementedError" -> "unimplemented"
      [] class = "OpenSSLError" -> "openssl"
      [] class = "CompressionError" -> "compression"
      [] class = "std::system_error" -> "connection"
      [] OTHER -> "unknown"

\* encode_clickhouse_error(e): the keys of the JSON object it writes and the
\* text or number written for each
encode_clickhouse_error(e, char_signed) ==
    LET type == TypeTag(e.class) IN
    CASE type = "server" ->
            IF e.stack_trace # <<>>
            THEN [type |-> type, code |-> e.code,
                  name |-> escape_json_string(e.name, char_signed),
                  message |-> escape_json_string(e.display_text, char_signed),
                  stack_trace |-> escape_json_string(e.stack_trace, char_signed)]
            ELSE [type |-> type, code |-> e.code,
                  name |-> escape_json_string(e.name, char_signed),
                  message |-> escape_json_string(e.display_text, char_signed)]
      [] type = "connection" ->
            [type |-> type, message |-> escape_json_string(e.what, char_signed),
             code |-> e.code]
      [] OTHER ->
            [type |-> type, message |-> escape_json_string(e.what, char_signed)]


\* the NIFs on a client whose body is inside try { } catch (std::exception)
ClientNifs ==
    {"client_create", "client_ping", "client_execute", "client_reset_connection",
     "client_insert"}

Returns == [class |-> "none"]

\* a client NIF with a catch handler: the library call returns, or throws e
\* and the handler rethrows std::runtime_error(encode_clickhouse_error(e)),
\* whose text is what the caller gets
client_nif(op, e, char_signed) ==
    /\ Alive
    /\ sel.pc \in {"idle", "returned", "raised"}
    /\ call' = IF e = Returns
               THEN [op |-> op, status |-> "ok"]
               ELSE [op |-> op, status |-> "error", exception |-> e,
                     error |-> encode_clickhouse_error(e, char_signed)]
    /\ UNCHANGED <<cols, blk, sel>>

\* client->Select throws e while client_select waits for it: client_select
\* has no handler, so e leaves the NIF as it is and the caller gets e.what()
client_select_throws(e) ==
    /\ sel.pc = "selecting"
    /\ sel' = [sel EXCEPT !.pc = "raised"]
    /\ call' = [op |-> "client_select", status |-> "error", exception |-> e,
                error |-> [what |-> e.what]]
    /\ UNCHANGED <<cols, blk>>

\* texts of exceptions: empty, "hi", a quote, a line feed, byte 1, and the
\* two bytes of U+00E9 in UTF-8
Messages == {<<>>, <<104, 105>>, <<34>>, <<10>>, <<1>>, <<195, 169>>}

ServerExceptions ==
    [class : {"ServerException"}, code : {60, 62}, name : {<<68, 66>>},
     display_text : {<<104, 105>>, <<34>>}, what : {<<104, 105>>},
     stack_trace : {<<>>, <<97, 10>>}]

SystemErrors ==
    [class : {"std::system_error"}, code : {111, 113}, what : Messages]

OtherExceptions ==
    [class : ExceptionClasses \ {"ServerException", "std::system_error"},
     what : Messages]

Exceptions == ServerExceptions \cup SystemErrors \cup OtherExceptions

InitErrors == cols = <<>> /\ InitCommon

NextErrors ==
    \/ UNCHANGED pending /\
         \E op \in ClientNifs, e \in Exceptions \cup {Returns}, cs \in BOOLEAN :
            client_nif(op, e, cs)
    \/ UNCHANGED pending /\ Len(cols) < MaxColumns /\
         \E T \in UnknownTypes \cup {"UInt64"} : column_create(T)
    \/ UNCHANGED pending /\ client_select
    \/ UNCHANGED pending /\ \E e \in Exceptions : client_select_throws(e)
    \/ UNCHANGED pending /\ client_select_return

SpecErrors == InitErrors /\ [][NextErrors]_vars

\* the kind tags of a structured error
ErrorKinds ==
    {"server", "validation", "protocol", "unimplemented", "tls", "compression",
     "connection", "unknown"}

\* C19: every failure a marshalling or client operation surfaces is the
\* payload of encode_clickhouse_error: a kind tag among server, validation,
\* protocol, unimplemented, tls, compression, connection and unknown, with
\* a message; a server failure carries code and name, and a stack trace
\* exactly when it is not empty; a connection failure carries the numeric
\* system error code.
C19_EveryFailureEncoded ==
    call.status = "error" =>
        /\ {"type", "message"} \subseteq DOMAIN call.error
        /\ call.error.type \in ErrorKinds
        /\ call.error.type = "server" =>
              /\ {"code", "name"} \subseteq DOMAIN call.error
              /\ call.error.code = call.exception.code
              /\ ("stack_trace" \in DOMAIN call.error)
                    <=> (call.exception.stack_trace # <<>>)
        /\ call.error.type = "connection" =>
              /\ "code" \in DOMAIN call.error
              /\ call.error.code = call.exception.code


\* the value of a hex digit
HexVal(d) == IF d <= 57 THEN d - 48 ELSE d - 87

\* the UTF-8 bytes of a code point below 0x800
Utf8(cp) == IF cp < 128 THEN <<cp>> ELSE <<192 + (cp \div 64), 128 + (cp % 64)>>

\* the bytes a JSON string body stands for, as a JSON reader takes it
RECURSIVE JsonUnescape(_)
JsonUnescape(text) ==
    IF text = <<>> THEN <<>>
    ELSE IF text[1] # 92 THEN <<text[1]>> \o JsonUnescape(Tail(text))
    ELSE IF text[2] = 117
    THEN Utf8(HexVal(text[3]) * 4096 + HexVal(text[4]) * 256
                + HexVal(text[5]) * 16 + HexVal(text[6]))
            \o JsonUnescape(SubSeq(text, 7, Len(text)))
    ELSE <<CASE text[2] = 98 -> 8
             [] text[2] = 102 -> 12
             [] text[2] = 110 -> 10
             [] text[2] = 114 -> 13
             [] text[2] = 116 -> 9
             [] OTHER -> text[2]>> \o JsonUnescape(SubSeq(text, 3, Len(text)))

\* the text of an exception that encode_clickhouse_error writes as message
MessageText(e) == IF e.class = "ServerException" THEN e.display_text ELSE e.what

\* C25: escape_json_string copies every byte of 0x20 or more other than the
\* double quote and the backslash unchanged, bytes 0x80 to 0xFF of UTF-8 text
\* included, and escapes only the double quote, the backslash and the bytes
\* below 0x20, so that the message of an encoded error, JSON-unescaped, is
\* the text of the exception.
C25_EscapeKeepsText ==
    (call.status = "error" /\ call.op \in ClientNifs) =>
        LET text == MessageText(call.exception) IN
        /\ JsonUnescape(call.error.message) = text
        /\ (\A k \in 1..Len(text) : text[k] >= 32 /\ text[k] \notin {34, 92})
              => call.error.message = text

---------------------------------------------------------------------------
(* Result columns the decoders only partly handle: a Nullable column of a   *)
(* nested kind other than UInt64, Int64, String and Float64, alone and as   *)
(* the rows of an array, and a Tuple column.                                *)

\* null maps a server can send: every sequence of 0 and 1 of up to MaxRows
NullMaps == SeqsUpTo({0, 1}, MaxRows)

\* a Nullable column of a nested integer kind with the given null map; row k
\* holds k + 6 (the value under a null is as good as any)
ServerNullable(kind, nulls) ==
    [kind |-> "Nullable", nulls |-> nulls,
     nested |-> [kind |-> kind,
                 data |-> [k \in DOMAIN nulls |->
                              IF kind = "UInt32" THEN <<k + 6, 0>> ELSE U64(k + 6)]]]

\* an Array column of one row that holds all rows of `nested`
OneRowArray(nested) ==
    [kind |-> "Array", offsets |-> <<Size(nested)>>, nested |-> nested]

\* the data packets: a Nullable(UInt32) or Nullable(UInt64) column "n", an
\* Array(Nullable(UInt32)) column "a" of one row, and id with a Tuple column
UndecodedPackets ==
    {<<[name |-> "n", col |-> ServerNullable(kind, nulls)]>> :
        kind \in {"UInt32", "UInt64"}, nulls \in NullMaps}
    \cup {<<[name |-> "a", col |-> OneRowArray(ServerNullable("UInt32", nulls))]>> :
            nulls \in NullMaps}
    \cup {<<[name |-> "id", col |-> IdColumn(1)], [name |-> "t", col |-> TupleColumn]>>}

InitUndecoded == cols = <<>> /\ InitCommon

NextUndecoded ==
    \/ UNCHANGED pending /\ client_select
    \/ UNCHANGED pending /\
         \E p \in UndecodedPackets, ub \in UBOutcomes : select_callback(p, ub)
    \/ UNCHANGED pending /\ client_select_return

SpecUndecoded == InitUndecoded /\ [][NextUndecoded]_vars

\* the number of null rows of a Nullable column
NullCount(col) == Cardinality({k \in 1..Size(col) : IsNull(col, k - 1)})

Nils(n) == [k \in 1..n |-> enif_make_atom("nil")]

IsUndecodedNullable(col) ==
    col.kind = "Nullable" /\ col.nested.kind \notin NullableDecoded

\* C21: a Nullable column of a nested kind other than UInt64, Int64, String
\* and Float64 decodes to nil for each null row and to nothing for each other
\* row: the decoded sequence is as many nils as the column has null rows.
\* Stated of the packet delivered last: of the array row made by
\* column_to_elixir_list, which is in the record produced, and of the vector
\* block_to_maps_impl builds for the column.
C21_UndecodedNullableKeepsOnlyNils ==
    sel.packet # <<>> =>
        \A c \in DOMAIN sel.packet :
            LET col == sel.packet[c].col
                name == sel.packet[c].name
            IN  /\ IsUndecodedNullable(col) =>
                      /\ column_to_elixir_list(col) =
                            enif_make_list_from_array(Nils(NullCount(col)))
                      /\ block_column_values(col, Size(col)).values =
                            Nils(NullCount(col))
                      /\ (NullCount(col) = Size(col) /\ Size(col) > 0) =>
                            /\ sel.pc \in {"selecting", "returned"}
                            /\ Len(sel.produced) = Size(col)
                            /\ \A r \in 1..Size(col) :
                                  sel.produced[r][name] = enif_make_atom("nil")
                /\ (col.kind = "Array" /\ IsUndecodedNullable(col.nested)) =>
                      /\ sel.pc \in {"selecting", "returned"}
                      /\ Len(sel.produced) = 1
                      /\ sel.produced[1][name] =
                            enif_make_list_from_array(Nils(NullCount(col.nested)))

\* C21 witness: an array row of a Nullable(UInt32) column whose rows are a
\* value and a null was decoded to the list holding one nil
C21_WitnessValueThenNull ==
    /\ sel.packet # <<>>
    /\ sel.packet[1].col.kind = "Array"
    /\ sel.packet[1].col.nested.nulls = <<0, 1>>
    /\ sel.produced = <<[a |-> enif_make_list_from_array(<<enif_make_atom("nil")>>)]>>


\* C23: when the row loop of block_to_maps_impl runs, the vector decoded of
\* every column holds row_count entries, whatever the kind of the column, so
\* that no read col_data[c][r] with r < row_count is past its end: the
\* projection does not crash and no record holds a term that was never
\* decoded.  Stated of the block of the packet delivered last.
C23_ColDataHoldsRowCount ==
    (sel.packet # <<>> /\ ~DifferingLengths(sel.packet)) =>
        LET block == ReadBlock(EmptyBlock, sel.packet).block
            row_count == block_row_count(block)
        IN  row_count > 0 =>
              /\ \A c \in 1..block_column_count(block) :
                    Len(block_column_values(block.columns[c].col, row_count).values)
                        = row_count
              /\ sel.pc # "crashed"
              /\ \A r \in DOMAIN sel.produced :
                    \A n \in DOMAIN sel.produced[r] : sel.produced[r][n] # Garbage

============================================================================
